---- MODULE Spec2Model ----
(***************************************************************************)
(* Model of directus_sdk_py/query.py: the DirectusQueryBuilder (a mutable  *)
(* accumulator of a query descriptor) and the SQLToDirectusConverter       *)
(* (SQL text -> tokens -> descriptor).                                     *)
(*                                                                         *)
(* Encoding of Python values:                                              *)
(*   - an optional dict key is a sequence of length 0 (key absent) or 1    *)
(*     (key present, holding the value);                                   *)
(*   - a filter dict is a record with a "kind": the empty dict {}, a       *)
(*     comparison {field: {op: value}} or a logical group {logic: [..]};   *)
(*   - a comparison value is a tagged record (None, str, int, list of str).*)
(***************************************************************************)
EXTENDS Integers, Sequences, FiniteSets, TLC

VARIABLES
    query,      \* DirectusQueryBuilder.query["query"] of the builder under test
    built_ref,  \* TRUE once build() has handed out a reference to that dict
    log,        \* history: the builder calls made so far, with their arguments
    hist,       \* history: hist[1] is the fresh query, hist[i+1] the query after log[i]
    conv,       \* the most recent convert() call: its input and its outcome
    direct,     \* the most recent direct call of one of the converter's
                \* helper methods: the method, its argument and its outcome
    self_builder,   \* per converter instance: the query of self.builder
    calls,      \* per thread: the convert() call it is in (its instance, its
                \* argument, the statement it is at), idle when in none
    locals,     \* per call frame: the local variables of convert()
    returned,   \* history: the convert() calls that have ended, with outcome
    stack,      \* the frames of the WHERE parser call being run step by step,
                \* innermost last: _parse_group and _parse_non_standard_token
    parse       \* that call: whether it runs, its argument and its outcome

\* the variables of the converter instances used from several threads
concurrent == <<self_builder, calls, locals, returned>>

\* the variables of the parser run step by step
parsing == <<stack, parse>>

vars == <<query, built_ref, log, hist, conv, direct, concurrent, parsing>>

-----------------------------------------------------------------------------
(* Optional values *)

Absent == <<>>
Some(x) == <<x>>

-----------------------------------------------------------------------------
(* Filter dicts and comparison values *)

VNone == [t |-> "none"]
VStr(s) == [t |-> "str", s |-> s]
VInt(n) == [t |-> "int", n |-> n]
VList(xs) == [t |-> "list", items |-> xs]

EmptyDict == [kind |-> "empty"]
Cmp(f, op, v) == [kind |-> "cmp", field |-> f, op |-> op, value |-> v]
Grp(logic, members) == [kind |-> "grp", logic |-> logic, members |-> members]

\* Python truthiness of a dict: non-empty
Truthy(d) == d.kind # "empty"

-----------------------------------------------------------------------------
(* DirectusQueryBuilder *)

\* __init__: self.query = {"query": {}}
EmptyQuery ==
    [filter |-> Absent, sort |-> Absent, limit |-> Absent,
     offset |-> Absent, page |-> Absent]

\* A plausible slip: the new members are merged as siblings of the old group's
\* members instead of wrapping the old filter.
nested_condition_merge(q, logic_op, conditions) ==
    LET cur == IF q.filter = Absent THEN EmptyDict ELSE q.filter[1]
    IN  IF Truthy(cur)
        THEN [q EXCEPT !.filter =
                 Some(Grp(logic_op,
                          (IF cur.kind = "grp" THEN cur.members ELSE <<cur>>)
                              \o conditions))]
        ELSE [q EXCEPT !.filter = Some(Grp(logic_op, conditions))]

nested_condition(q, logic_op, conditions) ==
    LET q1 == IF q.filter = Absent
              THEN [q EXCEPT !.filter = Some(EmptyDict)]
              ELSE q
        current_filter == q1.filter[1]
    IN  IF Truthy(current_filter)
        THEN [q1 EXCEPT !.filter =
                 Some(Grp(logic_op, <<current_filter>> \o conditions))]
        ELSE \* filter[logic_op] = conditions on the empty dict
             [q1 EXCEPT !.filter = Some(Grp(logic_op, conditions))]

or_condition(q, conditions) == nested_condition(q, "_or", conditions)

and_condition(q, conditions) == nested_condition(q, "_and", conditions)

field(q, field_name, operator, value) ==
    and_condition(q, <<Cmp(field_name, operator, value)>>)

\* A plausible slip: no early return, so sort() stores the empty list.
sort_no_guard(q, fields) == [q EXCEPT !.sort = Some(fields)]

sort(q, fields) ==
    IF fields = <<>> THEN q
    ELSE [q EXCEPT !.sort = Some(fields)]

\* A plausible slip: setting the limit resets the page.
limit_clears_page(q, n) == [q EXCEPT !.limit = Some(n), !.page = Absent]

limit(q, n) == [q EXCEPT !.limit = Some(n)]

offset(q, n) == [q EXCEPT !.offset = Some(n)]

page(q, n) == [q EXCEPT !.page = Some(n)]

\* a build that hands out the query and starts a fresh one (not the code)
build_and_reset(q) == EmptyQuery

\* build returns the dict itself (a reference, not a copy)
build(q) == q

-----------------------------------------------------------------------------
(* Python string methods, on TLA+ strings *)

CharAt(s, i) == SubSeq(s, i, i)

LowerLetters == "abcdefghijklmnopqrstuvwxyz"
UpperLetters == "ABCDEFGHIJKLMNOPQRSTUVWXYZ"
Digits == {"0", "1", "2", "3", "4", "5", "6", "7", "8", "9"}

UpperChar(c) ==
    IF \E i \in 1..Len(LowerLetters) : CharAt(LowerLetters, i) = c
    THEN CharAt(UpperLetters,
                CHOOSE i \in 1..Len(LowerLetters) : CharAt(LowerLetters, i) = c)
    ELSE c

\* str.upper()
RECURSIVE Upper(_)
Upper(s) == IF s = "" THEN "" ELSE UpperChar(CharAt(s, 1)) \o Upper(Tail(s))

\* str.isdigit()
IsDigit(s) == s # "" /\ \A i \in 1..Len(s) : CharAt(s, i) \in Digits

DigitValue(c) ==
    CHOOSE d \in 0..9 : CharAt("0123456789", d + 1) = c

\* int(s) for a string of digits
RECURSIVE ToInt(_)
ToInt(s) ==
    IF s = "" THEN 0
    ELSE 10 * ToInt(SubSeq(s, 1, Len(s) - 1)) + DigitValue(CharAt(s, Len(s)))

\* str.strip(chars); chars is a set of one-character strings
RECURSIVE LStrip(_, _)
LStrip(s, chars) ==
    IF s # "" /\ CharAt(s, 1) \in chars THEN LStrip(Tail(s), chars) ELSE s

RECURSIVE RStrip(_, _)
RStrip(s, chars) ==
    IF s # "" /\ CharAt(s, Len(s)) \in chars
    THEN RStrip(SubSeq(s, 1, Len(s) - 1), chars)
    ELSE s

Strip(s, chars) == RStrip(LStrip(s, chars), chars)

\* the characters str.strip() and str.split() treat as whitespace
WhiteChars == {" ", "\t", "\n", "\r"}

StartsWith(s, prefix) ==
    Len(s) >= Len(prefix) /\ SubSeq(s, 1, Len(prefix)) = prefix

\* str.split(sep) for a one-character separator
RECURSIVE SplitAcc(_, _, _)
SplitAcc(s, sep, cur) ==
    IF s = "" THEN <<cur>>
    ELSE IF CharAt(s, 1) = sep
         THEN <<cur>> \o SplitAcc(Tail(s), sep, "")
         ELSE SplitAcc(Tail(s), sep, cur \o CharAt(s, 1))

Split(s, sep) == SplitAcc(s, sep, "")

\* str.replace(old, new) for a one-character old
RECURSIVE Replace(_, _, _)
Replace(s, old, new) ==
    IF s = "" THEN ""
    ELSE (IF CharAt(s, 1) = old THEN new ELSE CharAt(s, 1))
             \o Replace(Tail(s), old, new)

\* " ".join(s.split()): the whitespace-separated words joined by one space
RECURSIVE Words(_, _)
Words(s, cur) ==
    IF s = "" THEN (IF cur = "" THEN <<>> ELSE <<cur>>)
    ELSE IF CharAt(s, 1) \in WhiteChars
         THEN (IF cur = "" THEN <<>> ELSE <<cur>>) \o Words(Tail(s), "")
         ELSE Words(Tail(s), cur \o CharAt(s, 1))

RECURSIVE Join(_, _)
Join(ws, sep) ==
    IF ws = <<>> THEN ""
    ELSE IF Len(ws) = 1 THEN ws[1]
    ELSE ws[1] \o sep \o Join(Tail(ws), sep)

-----------------------------------------------------------------------------
(* sqlparse tokens, as the converter sees them *)

\* a leaf token: sqlparse.sql.Token(ttype, value)
Tok(ttype, value) ==
    [cls |-> "Token", ttype |-> ttype, value |-> value, tokens |-> <<>>]

RECURSIVE ConcatValues(_)
ConcatValues(tokens) ==
    IF tokens = <<>> THEN "" ELSE tokens[1].value \o ConcatValues(Tail(tokens))

\* a grouped token (sqlparse.sql.TokenList subclass): ttype is None and
\* str(token) is the concatenation of its children
Node(cls, tokens) ==
    [cls |-> cls, ttype |-> "None", value |-> ConcatValues(tokens),
     tokens |-> tokens]

\* Token.is_whitespace: ttype in T.Whitespace (T.Newline is a sub-type)
is_whitespace(token) == token.ttype \in {"Whitespace", "Whitespace.Newline"}

\* TokenList.flatten(): the leaf tokens in source order
RECURSIVE flatten(_)
FlattenOne(token) ==
    IF token.cls = "Token" THEN <<token>> ELSE flatten(token.tokens)
flatten(tokens) ==
    IF tokens = <<>> THEN <<>>
    ELSE FlattenOne(tokens[1]) \o flatten(Tail(tokens))

\* the sub-sequence of the tokens that are not whitespace
RECURSIVE NonWhitespace(_)
NonWhitespace(tokens) ==
    IF tokens = <<>> THEN <<>>
    ELSE (IF is_whitespace(tokens[1]) THEN <<>> ELSE <<tokens[1]>>)
             \o NonWhitespace(Tail(tokens))

-----------------------------------------------------------------------------
(* Outcome of a Python call: a returned value or a raised exception *)

Ok(v) == [exc |-> "", val |-> v]
Raise(e) == [exc |-> e]
Raised(r) == r.exc # ""

-----------------------------------------------------------------------------
(* SQLToDirectusConverter *)

\* query.py imports Comparison, Token and Where from sqlparse.sql and never
\* binds the name Keyword, which lines 121, 137, 142, 219 and 303 read as a
\* global: evaluating `token.ttype is Keyword` raises NameError.
KeywordBound == FALSE

\* `token.ttype is Keyword` where the name resolves: identity with T.Keyword
\* (sub-types such as Keyword.DML or Keyword.Order are other objects)
IsKeyword(token) == token.ttype = "Keyword"

_format_sql(sql) ==
    Join(Words(Replace(Replace(sql, "(", " ( "), ")", " ) "), ""), " ")

\* first index at which a sequence of booleans is TRUE, 0 when there is none
FirstIndex(flags) ==
    IF \E i \in 1..Len(flags) : flags[i]
    THEN CHOOSE i \in 1..Len(flags) :
             flags[i] /\ \A j \in 1..(i - 1) : ~flags[j]
    ELSE 0

\* for each token, whether it is not whitespace
NotWhitespaceFlags(tokens) ==
    [i \in 1..Len(tokens) |-> ~is_whitespace(tokens[i])]

\* the two nested loops, with the name Keyword resolving: the first keyword
\* occurrence that has a non-whitespace token after it decides
NextValueScan(tokens, keyword) ==
    LET Hit(i) == /\ IsKeyword(tokens[i])
                  /\ Upper(tokens[i].value) = keyword
                  /\ \E j \in (i + 1)..Len(tokens) : ~is_whitespace(tokens[j])
        hits == {i \in 1..Len(tokens) : Hit(i)}
    IN  IF hits = {} THEN Absent
        ELSE LET i == CHOOSE h \in hits : \A g \in hits : h <= g
                 rest == SubSeq(tokens, i + 1, Len(tokens))
             IN  Some(rest[FirstIndex(NotWhitespaceFlags(rest))].value)

_get_next_value_after_keyword(tokens, keyword) ==
    IF tokens = <<>> THEN Ok(Absent)
    ELSE IF ~KeywordBound THEN Raise("NameError")    \* line 121, first token
    ELSE Ok(NextValueScan(tokens, keyword))

\* one iteration of the ORDER BY loop; st.done records the break
OrderByStep(st, token) ==
    IF st.done THEN st
    ELSE IF IsKeyword(token) /\ Upper(token.value) = "ORDER BY"
    THEN [st EXCEPT !.in_order_by = TRUE]
    ELSE IF ~st.in_order_by THEN st
    ELSE IF IsKeyword(token) /\ Upper(token.value) \in {"LIMIT", "OFFSET"}
    THEN [st EXCEPT !.done = TRUE]
    ELSE IF is_whitespace(token) \/ token.value = "," THEN st
    ELSE LET value == Strip(token.value, WhiteChars)
         IN  IF Upper(value) = "ASC" THEN st
             ELSE IF Upper(value) = "DESC"
             THEN IF st.order_fields # <<>>
                  THEN [st EXCEPT !.order_fields[Len(st.order_fields)] =
                                       "-" \o @]
                  ELSE st
             ELSE [st EXCEPT !.order_fields = Append(@, value)]

RECURSIVE OrderByLoop(_, _)
OrderByLoop(st, tokens) ==
    IF tokens = <<>> THEN st
    ELSE OrderByLoop(OrderByStep(st, tokens[1]), Tail(tokens))

_get_order_by_fields(tokens) ==
    IF tokens = <<>> THEN Ok(<<>>)
    ELSE IF ~KeywordBound THEN Raise("NameError")    \* line 137, first token
    ELSE Ok(OrderByLoop([order_fields |-> <<>>, in_order_by |-> FALSE,
                         done |-> FALSE], tokens).order_fields)

\* mapping.get(key, default) on the dict of lines 160-172
mapping_get(key, default) ==
    CASE key = "=" -> "_eq"
      [] key = "!=" -> "_neq"
      [] key = "<" -> "_lt"
      [] key = "<=" -> "_lte"
      [] key = ">" -> "_gt"
      [] key = ">=" -> "_gte"
      [] key = "IN" -> "_in"
      [] key = "NOT IN" -> "_nin"
      [] key = "IS NULL" -> "_null"
      [] key = "IS NOT NULL" -> "_nnull"
      [] key = "LIKE" -> "_contains"
      [] OTHER -> default

\* a lookup that forgets the upper() (not the code)
mapping_exact(sql_operator) == mapping_get(sql_operator, sql_operator)

_get_operator_mapping(sql_operator) ==
    mapping_get(Upper(sql_operator), sql_operator)

RECURSIVE StripEach(_, _)
StripEach(vs, chars) ==
    IF vs = <<>> THEN <<>>
    ELSE <<Strip(vs[1], chars)>> \o StripEach(Tail(vs), chars)

\* [v.strip(" '\"") for v in text.strip("()").split(",")]; each stage is
\* computed once and handed on as a value
ListItems(text) ==
    CHOOSE items \in
        {StripEach(parts, {" ", "'", "\""}) :
            parts \in {Split(inner, ",") :
                         inner \in {Strip(t, {"(", ")"}) : t \in {text}}}} : TRUE

\* one iteration of the loop over comparison.tokens; here Keyword is
\* sqlparse.tokens.Keyword, reached through the imported package
ComparisonStep(st, token) ==
    IF is_whitespace(token) THEN st
    ELSE IF token.ttype = "Keyword"
    THEN [st EXCEPT !.operator = Some(_get_operator_mapping(token.value))]
    ELSE IF token.cls = "Parenthesis"
    THEN [st EXCEPT !.right_value = VList(ListItems(token.value))]
    ELSE IF token.ttype \in {"Name.Mixed", "String.Single"}
    THEN IF st.right_value = VNone
         THEN [st EXCEPT !.right_value = VStr(Strip(token.value, {"'", "\""}))]
         ELSE st
    ELSE st

RECURSIVE ComparisonLoop(_, _)
ComparisonLoop(st, tokens) ==
    IF tokens = <<>> THEN st
    ELSE ComparisonLoop(ComparisonStep(st, tokens[1]), Tail(tokens))

\* str(comparison.token_next(0)[1]): the first non-whitespace token after
\* the first one, "None" when there is none
TokenNextText(tokens) ==
    LET rest == Tail(tokens)
        i == FirstIndex(NotWhitespaceFlags(rest))
    IN  IF i = 0 THEN "None" ELSE rest[i].value

\* lines 194-199: the operator fallback and the returned condition, st being
\* operator and right_value as the loop left them
ComparisonResult(comparison, st) ==
    Cmp(comparison.tokens[1].value,
        IF st.operator = Absent
        THEN _get_operator_mapping(TokenNextText(comparison.tokens))
        ELSE st.operator[1],
        st.right_value)

_parse_comparison(comparison) ==
    ComparisonResult(comparison,
                     ComparisonLoop([operator |-> Absent, right_value |-> VNone],
                                    comparison.tokens))

\* a str argument: its text, and the statement-level tokens sqlparse.parse
\* gives for that text
Fragment(tokens) == Node("str", tokens)

\* sqlparse.parse(str(token)): the statement-level tokens of the first
\* statement, Absent when the text is blank and parse returns no statement.
\* A sqlparse token of the inputs used here re-parses to itself.
ReparseToken(token) ==
    IF Strip(token.value, WhiteChars) = "" THEN Absent
    ELSE IF token.cls = "str" THEN Some(token.tokens)
    ELSE Some(<<token>>)

\* sqlparse.parse(group_sql)[0].tokens for group_sql = str(token).strip("()"):
\* the children of the parenthesis between its outer "(" and ")"
ReparseInterior(token) ==
    IF token.cls = "Parenthesis" /\ Len(token.tokens) >= 2
    THEN SubSeq(token.tokens, 2, Len(token.tokens) - 1)
    ELSE <<>>

\* Comparison([t1, t2, t3]): the artificial comparison of the IN look-ahead
SynthComparison(tokens, i) ==
    Node("Comparison", <<tokens[i], tokens[i + 1], tokens[i + 2]>>)

\* the IN look-ahead test at 1-based position i: (i0 + 2) < len(tokens)
InAhead(tokens, i) ==
    (i + 2) <= Len(tokens) /\ Upper(tokens[i + 1].value) = "IN"

\* one iteration of the while loop of _parse_non_standard_token: the cursor
\* and the conditions after it
NonStandardStep(sub_tokens, i, conditions) ==
    IF InAhead(sub_tokens, i)
    THEN [i |-> i + 3,
          conditions |-> Append(conditions,
                                _parse_comparison(SynthComparison(sub_tokens, i)))]
    ELSE IF sub_tokens[i].cls = "Comparison"
    THEN [i |-> i + 1,
          conditions |-> Append(conditions, _parse_comparison(sub_tokens[i]))]
    ELSE [i |-> i + 1, conditions |-> conditions]

\* the while loop from the cursor r.i on
RECURSIVE NonStandardLoop(_, _)
NonStandardLoop(sub_tokens, r) ==
    IF r.i > Len(sub_tokens) THEN r.conditions
    ELSE NonStandardLoop(sub_tokens,
                         NonStandardStep(sub_tokens, r.i, r.conditions))

\* never raises: the IndexError of parse(...)[0] on blank text is caught and
\* the conditions collected so far (none) are returned
_parse_non_standard_token(token) ==
    IF ReparseToken(token) = Absent THEN <<>>
    ELSE NonStandardLoop(NonWhitespace(ReparseToken(token)[1]),
                         [i |-> 1, conditions |-> <<>>])

\* `if sub_conditions: conditions.append(sub_conditions)`
AppendGroup(st, sub_conditions) ==
    IF Truthy(sub_conditions)
    THEN [st EXCEPT !.conditions = Append(@, sub_conditions)]
    ELSE st

\* the group reduction of lines 258-263
GroupReduce(st) ==
    IF st.conditions = <<>> THEN EmptyDict
    ELSE IF Len(st.conditions) = 1 THEN st.conditions[1]
    ELSE Grp(st.current_operator, st.conditions)

\* whether `if not group_sql.strip(): return {}` returns at line 206
BlankGroup(group_token) ==
    Strip(Strip(group_token.value, {"(", ")"}), WhiteChars) = ""

GroupStart == [conditions |-> <<>>, current_operator |-> "_and"]

\* one iteration of the while loop of _parse_group at cursor i, with the name
\* Keyword resolving: the cursor and the loop variables after it.
\* sub_conditions is what the recursive call _parse_group(token) returns.
GroupStep(tokens, i, st, sub_conditions) ==
    IF IsKeyword(tokens[i])
    THEN [i |-> i + 1,
          st |-> [st EXCEPT !.current_operator =
                     IF Upper(tokens[i].value) = "OR" THEN "_or"
                     ELSE IF Upper(tokens[i].value) = "AND" THEN "_and"
                     ELSE @]]
    ELSE IF InAhead(tokens, i)
    THEN [i |-> i + 3,
          st |-> [st EXCEPT !.conditions =
                     Append(@, _parse_comparison(SynthComparison(tokens, i)))]]
    ELSE IF tokens[i].cls = "Comparison"
    THEN [i |-> i + 1,
          st |-> [st EXCEPT !.conditions =
                     Append(@, _parse_comparison(tokens[i]))]]
    ELSE IF StartsWith(Strip(tokens[i].value, WhiteChars), "(")
    THEN [i |-> i + 1, st |-> AppendGroup(st, sub_conditions)]
    ELSE IF tokens[i].cls = "Parenthesis"
    THEN [i |-> i + 1,
          st |-> IF Strip(tokens[i].value, WhiteChars) # ""
                 THEN AppendGroup(st, sub_conditions)
                 ELSE st]
    ELSE [i |-> i + 1,
          st |-> [st EXCEPT !.conditions =
                     @ \o _parse_non_standard_token(tokens[i])]]

\* GroupLoop is the while loop from the cursor r.i on; ParseGroupBound is
\* _parse_group with the name Keyword resolving, which the loop calls on the
\* sub-groups
RECURSIVE GroupLoop(_, _), ParseGroupBound(_)
GroupLoop(tokens, r) ==
    IF r.i > Len(tokens) THEN r.st
    ELSE GroupLoop(tokens,
                   GroupStep(tokens, r.i, r.st, ParseGroupBound(tokens[r.i])))

ParseGroupBound(group_token) ==
    IF BlankGroup(group_token) THEN EmptyDict
    ELSE GroupReduce(GroupLoop(NonWhitespace(ReparseInterior(group_token)),
                               [i |-> 1, st |-> GroupStart]))

_parse_group(group_token) ==
    IF BlankGroup(group_token) THEN Ok(EmptyDict)
    ELSE IF NonWhitespace(ReparseInterior(group_token)) = <<>>
    THEN Ok(EmptyDict)
    ELSE IF ~KeywordBound THEN Raise("NameError")    \* line 219, first token
    ELSE Ok(ParseGroupBound(group_token))

\* one iteration of the loop over where_clause.tokens, Keyword resolving
WhereStep(st, token) ==
    IF is_whitespace(token) THEN st
    ELSE IF IsKeyword(token) /\ Upper(token.value) \in {"AND", "OR"}
    THEN IF Upper(token.value) = "OR"
         THEN [st EXCEPT !.current_operator = "_or"]
         ELSE st
    ELSE IF token.cls = "Comparison"
    THEN [st EXCEPT !.conditions = Append(@, _parse_comparison(token))]
    ELSE IF StartsWith(Strip(token.value, WhiteChars), "(")
    THEN AppendGroup(st, ParseGroupBound(token))
    ELSE [st EXCEPT !.conditions = @ \o _parse_non_standard_token(token)]

RECURSIVE WhereLoop(_, _)
WhereLoop(st, tokens) ==
    IF tokens = <<>> THEN st
    ELSE WhereLoop(WhereStep(st, tokens[1]), Tail(tokens))

\* lines 321-323: the returned list
WhereResult(st) ==
    IF st.current_operator = "_or"
    THEN <<Grp("_or", st.conditions)>>
    ELSE st.conditions

_parse_where_conditions(where_clause) ==
    IF NonWhitespace(where_clause.tokens) = <<>> THEN Ok(<<>>)
    ELSE IF ~KeywordBound THEN Raise("NameError")    \* line 303, first token
    ELSE Ok(WhereResult(WhereLoop([conditions |-> <<>>,
                                   current_operator |-> "_and"],
                                  where_clause.tokens)))

\* the conditional builder calls of lines 356-369
IfWhere(builder, has_where, conditions) ==
    IF has_where THEN and_condition(builder, conditions) ELSE builder

IfSort(builder, order_fields) ==
    IF order_fields # <<>> THEN sort(builder, order_fields) ELSE builder

IfLimit(builder, limit_value) ==
    IF limit_value # Absent THEN limit(builder, limit_value[1]) ELSE builder

IfOffset(builder, offset_value) ==
    IF offset_value # Absent THEN offset(builder, offset_value[1]) ELSE builder

\* `int(s) if s and s.isdigit()`, else the None the variable started with
Number(text) ==
    IF text # Absent /\ text[1] # "" /\ IsDigit(text[1])
    THEN Some(ToInt(text[1]))
    ELSE Absent

\* lines 351-371: the builder calls, in the order of the code
BuildQuery(has_where, conditions, order_fields, limit_value, offset_value) ==
    build(IfOffset(IfLimit(IfSort(IfWhere(EmptyQuery, has_where, conditions),
                                  order_fields),
                           limit_value),
                   offset_value))

\* the first exception in the order the calls are made, else the built query
ConvertParts(has_where, limit_str, offset_str, conditions, order_fields) ==
    IF Raised(limit_str) THEN limit_str
    ELSE IF Raised(offset_str) THEN offset_str
    ELSE IF Raised(conditions) THEN conditions
    ELSE IF Raised(order_fields) THEN order_fields
    ELSE Ok(BuildQuery(has_where, conditions.val, order_fields.val,
                       Number(limit_str.val), Number(offset_str.val)))

\* convert from the parsed statement on: parsed is its top-level tokens,
\* tokens its flattened leaves, w the index of the Where clause (0 for none)
ConvertParsed(parsed, tokens, w) ==
    ConvertParts(w # 0,
                 _get_next_value_after_keyword(tokens, "LIMIT"),
                 _get_next_value_after_keyword(tokens, "OFFSET"),
                 IF w = 0 THEN Ok(<<>>) ELSE _parse_where_conditions(parsed[w]),
                 _get_order_by_fields(tokens))

\* convert on the SQL text sql.raw; sql.stmt is what sqlparse.parse returns for
\* _format_sql(sql.raw): Absent for no statement, else the first statement's
\* top-level tokens
convert(sql) ==
    IF sql.stmt = Absent THEN Raise("IndexError")    \* parse(...)[0], line 330
    ELSE ConvertParsed(sql.stmt[1], flatten(sql.stmt[1]),
                       FirstIndex([i \in 1..Len(sql.stmt[1]) |->
                                      sql.stmt[1][i].cls = "Where"]))

-----------------------------------------------------------------------------
(* Arguments the builder is driven with *)

MaxCalls == 3

c1 == Cmp("a", "_eq", VInt(1))
c2 == Cmp("b", "_in", VList(<<"x", "y">>))

LogicOps == {"_and", "_or"}
MemberLists == {<<>>, <<c1>>, <<c1, c2>>, <<c2, c1>>}
FieldArgs == {<<"a", "_eq", VInt(1)>>, <<"s", "_contains", VStr("x")>>}
SortArgs == {<<>>, <<"a">>, <<"name", "-created">>}
IntArgs == {-1, 5}

Call(op) ==
    [op |-> op, logic |-> "", conds |-> <<>>, fields |-> <<>>, n |-> 0,
     fargs |-> <<>>]

Record(call, q) ==
    /\ Len(log) < MaxCalls
    /\ query' = q
    /\ log' = Append(log, call)
    /\ hist' = Append(hist, q)

DoNestedCondition ==
    \E l \in LogicOps, ms \in MemberLists :
        /\ Record([Call("nested_condition") EXCEPT !.logic = l, !.conds = ms],
                  nested_condition(query, l, ms))
        /\ UNCHANGED <<built_ref, conv, direct, concurrent, parsing>>

DoOrCondition ==
    \E ms \in MemberLists :
        /\ Record([Call("or_condition") EXCEPT !.logic = "_or", !.conds = ms],
                  or_condition(query, ms))
        /\ UNCHANGED <<built_ref, conv, direct, concurrent, parsing>>

DoAndCondition ==
    \E ms \in MemberLists :
        /\ Record([Call("and_condition") EXCEPT !.logic = "_and", !.conds = ms],
                  and_condition(query, ms))
        /\ UNCHANGED <<built_ref, conv, direct, concurrent, parsing>>

DoField ==
    \E a \in FieldArgs :
        /\ Record([Call("field") EXCEPT !.logic = "_and", !.fargs = a],
                  field(query, a[1], a[2], a[3]))
        /\ UNCHANGED <<built_ref, conv, direct, concurrent, parsing>>

DoSort ==
    \E fs \in SortArgs :
        /\ Record([Call("sort") EXCEPT !.fields = fs], sort(query, fs))
        /\ UNCHANGED <<built_ref, conv, direct, concurrent, parsing>>

DoLimit ==
    \E n \in IntArgs :
        /\ Record([Call("limit") EXCEPT !.n = n], limit(query, n))
        /\ UNCHANGED <<built_ref, conv, direct, concurrent, parsing>>

DoOffset ==
    \E n \in IntArgs :
        /\ Record([Call("offset") EXCEPT !.n = n], offset(query, n))
        /\ UNCHANGED <<built_ref, conv, direct, concurrent, parsing>>

DoPage ==
    \E n \in IntArgs :
        /\ Record([Call("page") EXCEPT !.n = n], page(query, n))
        /\ UNCHANGED <<built_ref, conv, direct, concurrent, parsing>>

DoBuild ==
    /\ Record(Call("build"), build(query))
    /\ built_ref' = TRUE
    /\ UNCHANGED <<conv, direct, concurrent, parsing>>

-----------------------------------------------------------------------------
(* SQL texts convert is called with, as sqlparse tokenizes them *)

Ws == Tok("Whitespace", " ")
Kw(v) == Tok("Keyword", v)
Punct(v) == Tok("Punctuation", v)
Ident(name) == Node("Identifier", <<Tok("Name", name)>>)
Num(n) == Tok("Number.Integer", n)
Quoted(s) == Tok("String.Single", s)
Compare(l, o, r) ==
    Node("Comparison", <<l, Ws, Tok("Operator.Comparison", o), Ws, r>>)
Paren(inner) ==
    Node("Parenthesis", <<Punct("(")>> \o inner \o <<Punct(")")>>)

\* SELECT * FROM t
SelectTokens ==
    <<Tok("Keyword.DML", "SELECT"), Ws, Tok("Wildcard", "*"), Ws,
      Kw("FROM"), Ws, Ident("t")>>

\* the list ( 1,2,3 ) of an IN test
InList ==
    Paren(<<Ws, Node("IdentifierList",
                     <<Num("1"), Punct(","), Num("2"), Punct(","), Num("3")>>),
            Ws>>)

\* bodies of the WHERE clause (the tokens after the WHERE keyword)
WhereBodies ==
    { <<Compare(Ident("a"), "=", Num("1"))>>,
      <<Compare(Ident("name"), "=", Quoted("'bob'"))>>,
      <<Compare(Ident("name"), "like", Quoted("'bo'"))>>,
      <<Compare(Ident("a"), ">=", Quoted("'7'"))>>,
      <<Compare(Ident("a"), "=", Num("1")), Ws, Kw("AND"), Ws,
        Compare(Ident("b"), "=", Num("2"))>>,
      <<Compare(Ident("a"), "=", Quoted("'1'")), Ws, Kw("and"), Ws,
        Compare(Ident("b"), "!=", Quoted("'2'"))>>,
      <<Compare(Ident("a"), "=", Quoted("'1'")), Ws, Kw("OR"), Ws,
        Compare(Ident("b"), "<", Quoted("'2'"))>>,
      <<Ident("x"), Ws, Kw("IN"), Ws, InList>>,
      <<Paren(<<Ws>>)>>,
      <<Paren(<<Ws, Compare(Ident("a"), "=", Quoted("'1'")), Ws, Kw("OR"), Ws,
                Compare(Ident("b"), "=", Quoted("'2'")), Ws>>),
        Ws, Kw("AND"), Ws, Compare(Ident("c"), "<=", Quoted("'3'"))>> }

WhereClauses ==
    {<<>>} \cup {<<Ws, Node("Where", <<Kw("WHERE"), Ws>> \o b)>> : b \in WhereBodies}

OrderClauses ==
    { <<>>,
      <<Ws, Kw("ORDER BY"), Ws,
        Node("IdentifierList",
             <<Ident("name"), Punct(","), Ws,
               Node("Identifier",
                    <<Tok("Name", "created"), Ws, Tok("Keyword.Order", "DESC")>>)>>)>>,
      <<Ws, Kw("order by"), Ws,
        Node("IdentifierList",
             <<Node("Identifier",
                    <<Tok("Name", "name"), Ws, Tok("Keyword.Order", "asc")>>),
               Punct(","), Ws, Ident("id")>>)>>,
      <<Ws, Kw("ORDER BY"), Ws, Tok("Keyword.Order", "DESC")>> }

LimitClauses ==
    { <<>>,
      <<Ws, Kw("LIMIT"), Ws, Num("10")>>,
      <<Ws, Kw("limit"), Ws, Num("0")>>,
      <<Ws, Kw("LIMIT"), Ws, Ident("abc")>>,
      <<Ws, Kw("LIMIT")>> }

OffsetClauses ==
    { <<>>,
      <<Ws, Kw("OFFSET"), Ws, Num("5")>>,
      <<Ws, Kw("OFFSET"), Ws, Ident("x")>> }

Statement(tokens) == [raw |-> ConcatValues(tokens), stmt |-> Some(tokens)]

SqlInputs ==
    { Statement(SelectTokens \o w \o o \o l \o f) :
          w \in WhereClauses, o \in OrderClauses,
          l \in LimitClauses, f \in OffsetClauses }
    \cup
    { [raw |-> "", stmt |-> Absent],
      [raw |-> "  ", stmt |-> Absent],
      [raw |-> "SELECT * FROM t WHERE x IN (1,2,3)",
       stmt |-> Some(SelectTokens \o
                     <<Ws, Node("Where", <<Kw("WHERE"), Ws, Ident("x"), Ws,
                                           Kw("IN"), Ws, InList>>)>>)] }

\* the tokens given for a text are those of the normalized text
TokensMatchText(sql) ==
    IF sql.stmt = Absent THEN _format_sql(sql.raw) = ""
    ELSE _format_sql(sql.raw) = Strip(ConcatValues(sql.stmt[1]), WhiteChars)

\* one whole convert() call; the converter keeps nothing between calls
DoConvert ==
    \E sql \in SqlInputs :
        /\ conv' = [called |-> TRUE, sql |-> sql, outcome |-> convert(sql)]
        /\ UNCHANGED <<query, built_ref, log, hist, direct, concurrent, parsing>>

-----------------------------------------------------------------------------
(* Arguments the converter's helper methods are called with directly *)

OperatorSpellings ==
    { "=", "!=", "<", "<=", ">", ">=", "IN", "NOT IN", "IS NULL",
      "IS NOT NULL", "LIKE",
      "in", "In", "not in", "Not In", "is null", "Is Null", "is not null",
      "Is Not Null", "like", "Like", "lIKE",
      "<>", "==", "BETWEEN", "between", "ilike", "NOT  IN", "IN ", " =",
      "None", "" }

\* ( 'x', 'y' )
QuotedList ==
    Paren(<<Ws, Node("IdentifierList",
                     <<Quoted("'x'"), Punct(","), Ws, Quoted("'y'")>>),
            Ws>>)

ComparisonOps == {"=", "!=", "<", ">=", "like", "LIKE", "<>"}

Literals ==
    { Quoted("'bob'"), Quoted("'7'"), Quoted("''"),
      Num("1"), Num("42"), Tok("Number.Float", "1.5"), Ident("other") }

\* x IN <list>, the three tokens wrapped as the look-ahead wraps them
InComparisons ==
    { Node("Comparison", <<Ident("x"), Kw(k), l>>) :
          k \in {"IN", "in"}, l \in {InList, QuotedList} }

ComparisonInputs ==
    { Compare(Ident(f), o, r) :
          f \in {"a", "name"}, o \in ComparisonOps, r \in Literals }
    \cup InComparisons

CmpA == Compare(Ident("a"), "=", Quoted("'1'"))
CmpB == Compare(Ident("b"), "!=", Quoted("'2'"))

\* ( c < '3' OR d = '4' )
OrGroup ==
    Paren(<<Ws, Compare(Ident("c"), "<", Quoted("'3'")), Ws, Kw("OR"), Ws,
            Compare(Ident("d"), "=", Quoted("'4'")), Ws>>)

\* x IN with nothing after it
DanglingIn == <<Ident("x"), Ws, Kw("IN")>>

\* what can stand between two connectives of one nesting level
Items ==
    { <<CmpA>>, <<CmpB>>, <<Paren(<<Ws>>)>>, <<Paren(<<>>)>>, <<OrGroup>>,
      <<Ident("x"), Ws, Kw("IN"), Ws, InList>>, DanglingIn }

Connectives == {Kw("AND"), Kw("OR"), Kw("or")}

\* token sequences of one nesting level: one, two or three items
Levels ==
    Items
    \cup { a \o <<Ws, k, Ws>> \o b :
              a \in Items \ {DanglingIn}, k \in Connectives, b \in Items }
    \cup { a \o <<Ws, j, Ws>> \o b \o <<Ws, k, Ws>> \o c :
              a \in {<<CmpA>>}, b \in {<<CmpB>>, <<OrGroup>>, <<Paren(<<Ws>>)>>},
              c \in {<<Compare(Ident("e"), "=", Quoted("'5'"))>>},
              j \in Connectives, k \in Connectives }

GroupInputs == { Paren(<<Ws>> \o l \o <<Ws>>) : l \in Levels } \cup {Paren(<<>>)}

\* a token that is not whitespace and whose text is empty: sqlparse.parse of
\* its text gives no statement. The tokenizer yields none; a caller that
\* builds the Where clause by hand can pass one.
BlankToken == Tok("Name", "")

\* top-level token sequences holding a token whose re-parse fails
BlankLevels ==
    { <<BlankToken>>,
      <<CmpA, Ws, Kw("AND"), Ws, BlankToken>>,
      <<BlankToken, Ws, Kw("OR"), Ws, CmpB>>,
      <<CmpA, Ws, Kw("AND"), Ws, BlankToken, Ws, Kw("AND"), Ws, CmpB>> }

WhereInputs ==
    { Node("Where", <<Kw("WHERE"), Ws>> \o l) : l \in Levels \cup BlankLevels }

NonStandardInputs ==
    { Fragment(l) : l \in Levels }
    \cup { Ident("x"), Kw("IN"), Ws, CmpA, Num("1"),
           Node("IdentifierList", <<Num("1"), Punct(","), Num("2")>>),
           Fragment(<<>>), Fragment(<<Ws>>), BlankToken }

DoGetOperatorMapping ==
    \E s \in OperatorSpellings :
        /\ direct' = [method |-> "_get_operator_mapping", arg |-> s,
                      outcome |-> Ok(_get_operator_mapping(s))]
        /\ UNCHANGED <<query, built_ref, log, hist, conv, concurrent, parsing>>

DoParseComparison ==
    \E c \in ComparisonInputs :
        /\ direct' = [method |-> "_parse_comparison", arg |-> c,
                      outcome |-> Ok(_parse_comparison(c))]
        /\ UNCHANGED <<query, built_ref, log, hist, conv, concurrent, parsing>>

DoParseGroup ==
    \E g \in GroupInputs :
        /\ direct' = [method |-> "_parse_group", arg |-> g,
                      outcome |-> _parse_group(g)]
        /\ UNCHANGED <<query, built_ref, log, hist, conv, concurrent, parsing>>

DoParseNonStandardToken ==
    \E t \in NonStandardInputs :
        /\ direct' = [method |-> "_parse_non_standard_token", arg |-> t,
                      outcome |-> Ok(_parse_non_standard_token(t))]
        /\ UNCHANGED <<query, built_ref, log, hist, conv, concurrent, parsing>>

DoParseWhereConditions ==
    \E w \in WhereInputs :
        /\ direct' = [method |-> "_parse_where_conditions", arg |-> w,
                      outcome |-> _parse_where_conditions(w)]
        /\ UNCHANGED <<query, built_ref, log, hist, conv, concurrent, parsing>>

-----------------------------------------------------------------------------
(* convert() called from several threads, one statement at a time *)

MaxConverts == 3

Threads == {1, 2}
Instances == {1, 2}

\* the SQL texts the threads convert: "", SELECT * FROM t, and
\* SELECT * FROM t WHERE a = 1 LIMIT 10
CallInputs ==
    { [raw |-> "", stmt |-> Absent],
      Statement(SelectTokens),
      Statement(SelectTokens
                \o <<Ws, Node("Where", <<Kw("WHERE"), Ws,
                                         Compare(Ident("a"), "=", Num("1"))>>)>>
                \o <<Ws, Kw("LIMIT"), Ws, Num("10")>>) }

\* sqlparse.parse(text): Absent for no statement, else the top-level tokens
\* of the first statement
ParseOf(text) ==
    (CHOOSE sql \in CallInputs : _format_sql(sql.raw) = text).stmt

\* a thread that is in no convert() call
IdleCall == [pc |-> "idle", inst |-> 0, raw |-> "", seq |-> 0]

\* the local variables of convert() before any is assigned
NoLocals ==
    [sql_query |-> "", parsed |-> <<>>, tokens |-> <<>>, where_clause |-> 0,
     limit_str |-> Absent, offset_str |-> Absent,
     limit_value |-> Absent, offset_value |-> Absent,
     builder |-> EmptyQuery, order_fields |-> <<>>]

\* all calls keep their locals in one place, as attributes would be (not the
\* code)
SlotShared(t) == CHOOSE u \in Threads : \A v \in Threads : u <= v

\* where the call of thread t keeps its local variables: in its own frame
Slot(t) == t

\* the call goes on at statement pc with locals l
Go(pc, l) == [pc |-> pc, locals |-> l, outcome |-> Absent]

\* the call ends with the outcome (a return value or an exception)
End(outcome) == [pc |-> "idle", locals |-> NoLocals, outcome |-> Some(outcome)]

\* `name = call(...)`: the exception of the call ends convert, else its value
\* is assigned
Assign(l, name, r, pc) ==
    IF Raised(r) THEN End(r) ELSE Go(pc, [l EXCEPT ![name] = r.val])

\* lines 357-358
AssignConditions(l, r) ==
    IF Raised(r) THEN End(r)
    ELSE Go("order", [l EXCEPT !.builder = and_condition(@, r.val)])

\* lines 361-363
AssignOrder(l, r) ==
    IF Raised(r) THEN End(r)
    ELSE Go("limits", [l EXCEPT !.order_fields = r.val,
                                 !.builder = IfSort(@, r.val)])

\* the statement of convert() at pc, run on the argument raw and the locals l
RunStatement(pc, raw, l) ==
    CASE pc = "format" ->                                     \* line 328
             Go("parse", [l EXCEPT !.sql_query = _format_sql(raw)])
      [] pc = "parse" ->                                      \* lines 330-331
             IF ParseOf(l.sql_query) = Absent THEN End(Raise("IndexError"))
             ELSE Go("where",
                     [l EXCEPT !.parsed = ParseOf(l.sql_query)[1],
                               !.tokens = flatten(ParseOf(l.sql_query)[1])])
      [] pc = "where" ->                                      \* lines 333-341
             Go("limit",
                [l EXCEPT !.where_clause =
                     FirstIndex([i \in 1..Len(l.parsed) |->
                                    l.parsed[i].cls = "Where"])])
      [] pc = "limit" ->                                      \* line 344
             Assign(l, "limit_str",
                    _get_next_value_after_keyword(l.tokens, "LIMIT"), "offset")
      [] pc = "offset" ->                                     \* line 345
             Assign(l, "offset_str",
                    _get_next_value_after_keyword(l.tokens, "OFFSET"), "numbers")
      [] pc = "numbers" ->                                    \* lines 347-350
             Go("builder", [l EXCEPT !.limit_value = Number(l.limit_str),
                                     !.offset_value = Number(l.offset_str)])
      [] pc = "builder" ->                                    \* line 353
             Go("conditions", [l EXCEPT !.builder = EmptyQuery])
      [] pc = "conditions" ->                                 \* lines 356-358
             IF l.where_clause = 0 THEN Go("order", l)
             ELSE AssignConditions(l, _parse_where_conditions(
                                          l.parsed[l.where_clause]))
      [] pc = "order" ->                                      \* lines 361-363
             AssignOrder(l, _get_order_by_fields(l.tokens))
      [] pc = "limits" ->                                     \* lines 366-369
             Go("return",
                [l EXCEPT !.builder =
                     IfOffset(IfLimit(@, l.limit_value), l.offset_value)])
      [] pc = "return" ->                                     \* line 371
             End(Ok(build(l.builder)))

\* the convert() calls made so far
Begun == Len(returned) + Cardinality({t \in Threads : calls[t].pc # "idle"})

\* a thread calls convert(sql.raw) on converter instance i
BeginConvert ==
    \E t \in Threads, i \in Instances, sql \in CallInputs :
        /\ calls[t].pc = "idle"
        /\ Begun < MaxConverts
        /\ calls' = [calls EXCEPT ![t] = [pc |-> "format", inst |-> i,
                                          raw |-> sql.raw, seq |-> Begun + 1]]
        /\ UNCHANGED <<self_builder, locals, returned>>
        /\ UNCHANGED <<query, built_ref, log, hist, conv, direct, parsing>>

\* the effect r of one statement of thread t's call
Advance(t, r) ==
    /\ locals' = [locals EXCEPT ![Slot(t)] = r.locals]
    /\ calls' = [calls EXCEPT ![t] = IF r.outcome = Absent
                                     THEN [@ EXCEPT !.pc = r.pc]
                                     ELSE IdleCall]
    /\ returned' = IF r.outcome = Absent THEN returned
                   ELSE Append(returned,
                               [seq |-> calls[t].seq, inst |-> calls[t].inst,
                                raw |-> calls[t].raw, outcome |-> r.outcome[1]])

\* a thread runs the next statement of the convert() call it is in
StepConvert ==
    \E t \in Threads :
        /\ calls[t].pc # "idle"
        /\ Advance(t, RunStatement(calls[t].pc, calls[t].raw, locals[Slot(t)]))
        /\ UNCHANGED self_builder
        /\ UNCHANGED <<query, built_ref, log, hist, conv, direct, parsing>>

-----------------------------------------------------------------------------
(* The WHERE parser run one loop iteration at a time: a stack of frames, one
   per call of _parse_group or _parse_non_standard_token that is under way *)

\* parse is [status |-> "idle"] before the first call, then the call under
\* way (status "running") or the last call with its outcome. The outcome of
\* _parse_group carries the dict it returns in val, the outcome of
\* _parse_non_standard_token the list it returns in conditions, so that a
\* dict and a list are never compared.

Ended(method, arg, outcome) ==
    [status |-> IF Raised(outcome) THEN "raised" ELSE "returned",
     method |-> method, arg |-> arg, outcome |-> outcome]

\* the frame of _parse_group(group_token) when its loop starts (lines
\* 203-215); size is the length of group_sql
GroupFrame(group_token) ==
    [kind |-> "group",
     size |-> Len(Strip(group_token.value, {"(", ")"})),
     tokens |-> NonWhitespace(ReparseInterior(group_token)),
     i |-> 1, conditions |-> <<>>, current_operator |-> "_and"]

\* the frame of _parse_non_standard_token(token) when its loop starts (lines
\* 267-270); size is the length of str(token)
FallbackFrame(token) ==
    [kind |-> "fallback",
     size |-> Len(token.value),
     tokens |-> NonWhitespace(ReparseToken(token)[1]),
     i |-> 1, conditions |-> <<>>, current_operator |-> "_and"]

Top(stk) == stk[Len(stk)]

Callers(stk) == SubSeq(stk, 1, Len(stk) - 1)

\* the parse goes on with the frames stk
Continue(stk) == [stack |-> stk, outcome |-> Absent]

\* the outermost call ends with outcome r
Finish(r) == [stack |-> <<>>, outcome |-> Some(r)]

MoveTo(f, i) == [f EXCEPT !.i = i]

\* frame f calls _parse_group(token): a blank group returns {} at line 206
\* and the loop of f goes on; any other group gets a frame of its own
EnterGroup(callers, f, token) ==
    IF BlankGroup(token) THEN Continue(Append(callers, MoveTo(f, f.i + 1)))
    ELSE Continue(callers \o <<f, GroupFrame(token)>>)

\* frame f calls _parse_non_standard_token(token): when parse(...)[0] fails
\* the call returns [] and the loop of f goes on
EnterFallback(callers, f, token) ==
    IF ReparseToken(token) = Absent
    THEN Continue(Append(callers, MoveTo(f, f.i + 1)))
    ELSE Continue(callers \o <<f, FallbackFrame(token)>>)

\* one iteration of the while loop of _parse_group in frame f, at token
GroupIteration(callers, f, token) ==
    IF IsKeyword(token) \/ InAhead(f.tokens, f.i) \/ token.cls = "Comparison"
    THEN Continue(Append(callers,
                         MoveTo(GroupStep(f.tokens, f.i, f, EmptyDict).st,
                                GroupStep(f.tokens, f.i, f, EmptyDict).i)))
    ELSE IF StartsWith(Strip(token.value, WhiteChars), "(")
    THEN EnterGroup(callers, f, token)
    ELSE IF token.cls = "Parenthesis"
    THEN IF Strip(token.value, WhiteChars) # ""
         THEN EnterGroup(callers, f, token)
         ELSE Continue(Append(callers, MoveTo(f, f.i + 1)))
    ELSE EnterFallback(callers, f, token)

\* _parse_group returns v (lines 258-263) to the frame that called it, which
\* appends it when it is not empty and moves on (lines 243-245, 255)
GroupReturn(callers, v) ==
    IF callers = <<>> THEN Finish(Ok(v))
    ELSE Continue(Append(Callers(callers),
                         MoveTo(AppendGroup(Top(callers), v), Top(callers).i + 1)))

\* _parse_non_standard_token returns conditions (line 291) to the frame that
\* called it, which extends its list and moves on (lines 253-255)
FallbackReturn(callers, conditions) ==
    IF callers = <<>> THEN Finish([exc |-> "", conditions |-> conditions])
    ELSE Continue(Append(Callers(callers),
                         [Top(callers) EXCEPT !.conditions = @ \o conditions,
                                              !.i = @ + 1]))

\* one iteration of the while loop of _parse_non_standard_token in frame f
FallbackIteration(callers, f, r) ==
    Continue(Append(callers, [f EXCEPT !.i = r.i, !.conditions = r.conditions]))

\* the next step of the innermost frame f: an iteration of its loop, or its
\* return when the cursor has passed the last token
RunFrame(callers, f) ==
    IF f.kind = "group"
    THEN IF f.i > Len(f.tokens) THEN GroupReturn(callers, GroupReduce(f))
         ELSE IF ~KeywordBound THEN Finish(Raise("NameError"))   \* line 219
         ELSE GroupIteration(callers, f, f.tokens[f.i])
    ELSE IF f.i > Len(f.tokens) THEN FallbackReturn(callers, f.conditions)
         ELSE FallbackIteration(callers, f,
                                NonStandardStep(f.tokens, f.i, f.conditions))

\* _parse_group is called on a group token
CallParseGroup ==
    \E g \in GroupInputs :
        /\ parse.status # "running"
        /\ IF BlankGroup(g)
           THEN /\ stack' = <<>>
                /\ parse' = Ended("_parse_group", g, Ok(EmptyDict))
           ELSE /\ stack' = <<GroupFrame(g)>>
                /\ parse' = [status |-> "running", method |-> "_parse_group",
                             arg |-> g]
        /\ UNCHANGED <<query, built_ref, log, hist, conv, direct, concurrent>>

\* _parse_non_standard_token is called on a token or a text
CallParseNonStandardToken ==
    \E t \in NonStandardInputs :
        /\ parse.status # "running"
        /\ IF ReparseToken(t) = Absent
           THEN /\ stack' = <<>>
                /\ parse' = Ended("_parse_non_standard_token", t,
                                  [exc |-> "", conditions |-> <<>>])
           ELSE /\ stack' = <<FallbackFrame(t)>>
                /\ parse' = [status |-> "running",
                             method |-> "_parse_non_standard_token", arg |-> t]
        /\ UNCHANGED <<query, built_ref, log, hist, conv, direct, concurrent>>

\* the running call takes its next step
StepParse ==
    /\ parse.status = "running"
    /\ stack' = RunFrame(Callers(stack), Top(stack)).stack
    /\ parse' = IF RunFrame(Callers(stack), Top(stack)).outcome = Absent
                THEN parse
                ELSE Ended(parse.method, parse.arg,
                           RunFrame(Callers(stack), Top(stack)).outcome[1])
    /\ UNCHANGED <<query, built_ref, log, hist, conv, direct, concurrent>>

NextBuilder ==
    \/ DoNestedCondition
    \/ DoOrCondition
    \/ DoAndCondition
    \/ DoField
    \/ DoSort
    \/ DoLimit
    \/ DoOffset
    \/ DoPage
    \/ DoBuild

NoConversion == [called |-> FALSE]

NoCall == [method |-> ""]

Init ==
    /\ query = EmptyQuery
    /\ built_ref = FALSE
    /\ log = <<>>
    /\ hist = <<EmptyQuery>>
    /\ conv = NoConversion
    /\ direct = NoCall
    /\ self_builder = [i \in Instances |-> EmptyQuery]
    /\ calls = [t \in Threads |-> IdleCall]
    /\ locals = [t \in Threads |-> NoLocals]
    /\ returned = <<>>
    /\ stack = <<>>
    /\ parse = [status |-> "idle"]

NextConvert == DoConvert

NextParser ==
    \/ DoGetOperatorMapping
    \/ DoParseComparison
    \/ DoParseGroup
    \/ DoParseNonStandardToken
    \/ DoParseWhereConditions

NextConcurrent ==
    \/ BeginConvert
    \/ StepConvert

NextParse ==
    \/ CallParseGroup
    \/ CallParseNonStandardToken
    \/ StepParse

Next ==
    NextBuilder \/ NextConvert \/ NextParser \/ NextConcurrent \/ NextParse

Spec == Init /\ [][Next]_vars

\* the builder driven directly by calling code
SpecBuilder == Init /\ [][NextBuilder]_vars

\* the converter called on SQL texts
SpecConvert == Init /\ [][NextConvert]_vars

\* convert() calls of several threads on shared and separate instances
SpecConcurrent == Init /\ [][NextConcurrent]_vars

\* the WHERE parser run step by step; a call that is under way goes on
SpecParse == Init /\ [][NextParse]_vars /\ WF_vars(StepParse)

\* the converter's helper methods called one at a time
SpecParser == Init /\ [][NextParser]_vars

-----------------------------------------------------------------------------
(* Properties of the builder, stated over the call history *)

FilterOps == {"nested_condition", "or_condition", "and_condition", "field"}

\* the members a filter call was given
ArgMembers(call) ==
    IF call.op = "field"
    THEN <<Cmp(call.fargs[1], call.fargs[2], call.fargs[3])>>
    ELSE call.conds

\* the filter reached from f by following the first member k times
RECURSIVE Descend(_, _)
Descend(f, k) ==
    IF k = 0 THEN f
    ELSE IF f.kind = "grp" /\ Len(f.members) > 0
         THEN Descend(f.members[1], k - 1)
         ELSE EmptyDict

\* number of filter calls among log[i..j]
FilterCallsBetween(i, j) ==
    Cardinality({k \in i..j : log[k].op \in FilterOps})

\* C2: a filter call made when a filter already exists yields a group with the
\* call's logic whose first member is the previous filter and whose remaining
\* members are the call's members in order; hence after k such calls the
\* earlier filter is found k levels down the first-member chain.
C2_WrapRule ==
    /\ \A i \in 1..Len(log) :
          (log[i].op \in FilterOps /\ hist[i].filter # Absent) =>
              /\ hist[i+1].filter # Absent
              /\ hist[i+1].filter[1].kind = "grp"
              /\ hist[i+1].filter[1].logic = log[i].logic
              /\ hist[i+1].filter[1].members =
                     <<hist[i].filter[1]>> \o ArgMembers(log[i])
    /\ \A i \in 1..Len(hist) : \A j \in i..Len(hist) :
          hist[i].filter # Absent =>
              /\ hist[j].filter # Absent
              /\ Descend(hist[j].filter[1], FilterCallsBetween(i, j - 1))
                     = hist[i].filter[1]

C2_Witness ==
    /\ Len(log) = 3
    /\ log[1].op = "nested_condition" /\ log[1].conds = <<c1>>
    /\ log[2].op = "or_condition" /\ log[2].conds = <<c2, c1>>
    /\ log[3].op = "field"
    /\ query.filter[1].logic = "_and"
    /\ Len(query.filter[1].members) = 2
    /\ query.filter[1].members[1].logic = "_or"
    /\ Len(query.filter[1].members[1].members) = 3
    /\ Descend(query.filter[1], 2) = hist[2].filter[1]

\* C3: the first filter call on a builder with no filter sets the filter to
\* the group {logic: members}, except that a single member becomes the filter
\* itself, without a group around it.
C3_FirstGroupElidesSingle ==
    \A i \in 1..Len(log) :
        (log[i].op \in FilterOps /\ hist[i].filter = Absent) =>
            hist[i+1].filter =
                Some(IF Len(ArgMembers(log[i])) = 1
                     THEN ArgMembers(log[i])[1]
                     ELSE Grp(log[i].logic, ArgMembers(log[i])))

\* C9: sort() with no fields changes nothing; sort() with fields replaces the
\* sort list by exactly those fields and leaves every other key alone.
C9_Sort ==
    \A i \in 1..Len(log) :
        log[i].op = "sort" =>
            IF log[i].fields = <<>>
            THEN hist[i+1] = hist[i]
            ELSE hist[i+1] = [hist[i] EXCEPT !.sort = Some(log[i].fields)]

C9_Witness ==
    /\ Len(log) = 3
    /\ log[1].op = "sort" /\ log[1].fields = <<"name", "-created">>
    /\ log[2].op = "sort" /\ log[2].fields = <<>>
    /\ hist[3].sort = Some(<<"name", "-created">>)
    /\ log[3].op = "sort" /\ log[3].fields = <<"a">>
    /\ query.sort = Some(<<"a">>)

Keys == {"filter", "sort", "limit", "offset", "page"}

\* the key a builder call is meant to write
OwnKeys(op) ==
    IF op \in FilterOps THEN {"filter"}
    ELSE IF op = "build" THEN {}
    ELSE {op}

\* the argument of the most recent call of setter op among log[1..k]
LatestArg(op, k) ==
    LET idx == {i \in 1..k : log[i].op = op}
    IN  IF idx = {} THEN Absent
        ELSE Some(log[CHOOSE i \in idx : \A j \in idx : j <= i].n)

\* C10: limit, offset and page always hold the argument of the latest call of
\* their own setter, and every builder call leaves the keys of the others
\* untouched.
C10_SettersIndependent ==
    /\ \A k \in 0..Len(log) :
          /\ hist[k+1].limit = LatestArg("limit", k)
          /\ hist[k+1].offset = LatestArg("offset", k)
          /\ hist[k+1].page = LatestArg("page", k)
    /\ \A i \in 1..Len(log) :
          \A key \in Keys \ OwnKeys(log[i].op) :
              hist[i+1][key] = hist[i][key]
    /\ query = hist[Len(hist)]

C10_Witness ==
    /\ Len(log) = 3
    /\ log[1].op = "page" /\ log[1].n = 5
    /\ log[2].op = "limit" /\ log[2].n = -1
    /\ log[3].op = "field"
    /\ query.limit = Some(-1)
    /\ query.page = Some(5)
    /\ query.offset = Absent
    /\ query.filter # Absent

\* the query a recorded builder call leaves when it starts from q
Apply(call, q) ==
    CASE call.op = "nested_condition" ->
             nested_condition(q, call.logic, call.conds)
      [] call.op = "or_condition" -> or_condition(q, call.conds)
      [] call.op = "and_condition" -> and_condition(q, call.conds)
      [] call.op = "field" ->
             field(q, call.fargs[1], call.fargs[2], call.fargs[3])
      [] call.op = "sort" -> sort(q, call.fields)
      [] call.op = "limit" -> limit(q, call.n)
      [] call.op = "offset" -> offset(q, call.n)
      [] call.op = "page" -> page(q, call.n)
      [] call.op = "build" -> build(q)

\* C11: build returns the accumulated query and leaves the builder as it was:
\* a build directly after a build returns the same descriptor, and a call made
\* after a build works on the query accumulated before that build, its effect
\* being what the builder holds (and the next build returns) afterwards.
C11_BuildKeepsState ==
    /\ \A i \in 1..Len(log) :
          log[i].op = "build" =>
              /\ hist[i+1] = hist[i]
              /\ (i < Len(log) /\ log[i+1].op = "build") =>
                     hist[i+2] = hist[i+1]
              /\ i < Len(log) => hist[i+2] = Apply(log[i+1], hist[i])
    /\ query = hist[Len(hist)]
    /\ built_ref = (\E i \in 1..Len(log) : log[i].op = "build")

C11_Witness ==
    /\ Len(log) = 3
    /\ log[1].op = "limit" /\ log[1].n = 5
    /\ log[2].op = "build"
    /\ hist[3] = hist[2]
    /\ log[3].op = "and_condition" /\ log[3].conds = <<c1, c2>>
    /\ query.limit = Some(5)
    /\ query.filter = Some(Grp("_and", <<c1, c2>>))

\* no logical group in the filter tree f has an empty member list
RECURSIVE NoEmptyGroup(_)
NoEmptyGroup(f) ==
    f.kind = "grp" =>
        /\ Len(f.members) > 0
        /\ \A i \in 1..Len(f.members) : NoEmptyGroup(f.members[i])

\* C13: no logical group attached anywhere in the filter the builder holds,
\* the top-level filter included, has an empty member list.
C13_GroupsNonEmpty ==
    query.filter # Absent => NoEmptyGroup(query.filter[1])

-----------------------------------------------------------------------------
(* Properties of convert, stated over the last call and the tokens it was
   given *)

\* convert returned (raised nothing)
Returned == conv.called /\ conv.outcome.exc = ""

HasStatement == conv.called /\ conv.sql.stmt # Absent

FlatTokens == flatten(conv.sql.stmt[1])

\* the non-whitespace tokens of the WHERE clause after the WHERE keyword,
\* the empty sequence when the statement has no WHERE clause
WhereBody ==
    LET parsed == conv.sql.stmt[1]
        w == FirstIndex([i \in 1..Len(parsed) |-> parsed[i].cls = "Where"])
    IN  IF w = 0 THEN <<>>
        ELSE Tail(NonWhitespace(conv.sql.stmt[1][w].tokens))

\* C1: convert returns a descriptor for every SQL text and never raises.
C1_ConvertNeverFails == conv.called => conv.outcome.exc = ""

SupportedOps == {"=", "!=", "<", "<=", ">", ">=", "LIKE"}

\* a comparison token `field OP literal` with a supported operator
IsSimpleComparison(t) ==
    /\ t.cls = "Comparison"
    /\ Len(NonWhitespace(t.tokens)) = 3
    /\ Upper(NonWhitespace(t.tokens)[2].value) \in SupportedOps

\* {field: {mappedOp: value}} as the claims read a comparison token
ExpectedComparison(t) ==
    LET parts == NonWhitespace(t.tokens)
    IN  Cmp(parts[1].value, _get_operator_mapping(parts[2].value),
            VStr(Strip(parts[3].value, {"'", "\""})))

\* C4: a WHERE clause of one supported comparison yields the bare comparison
\* {field: {mappedOp: value}} as the filter, with no group around it.
C4_SingleComparisonBare ==
    (HasStatement /\ Len(WhereBody) = 1 /\ IsSimpleComparison(WhereBody[1])) =>
        /\ Returned
        /\ conv.outcome.val.filter = Some(ExpectedComparison(WhereBody[1]))

\* C5: two comparisons joined by AND yield exactly one _and group holding the
\* two parsed comparisons in source order.
C5_TwoComparisonsOneAnd ==
    (/\ HasStatement
     /\ Len(WhereBody) = 3
     /\ WhereBody[1].cls = "Comparison"
     /\ WhereBody[2].ttype = "Keyword" /\ Upper(WhereBody[2].value) = "AND"
     /\ WhereBody[3].cls = "Comparison") =>
        /\ Returned
        /\ conv.outcome.val.filter =
               Some(Grp("_and", <<_parse_comparison(WhereBody[1]),
                                  _parse_comparison(WhereBody[3])>>))

\* the literals of a parenthesized list, quotes stripped, in list order
RECURSIVE LiteralTexts(_)
LiteralTexts(tokens) ==
    IF tokens = <<>> THEN <<>>
    ELSE (IF tokens[1].ttype \in {"Whitespace", "Punctuation"} THEN <<>>
          ELSE <<Strip(tokens[1].value, {"'", "\""})>>)
             \o LiteralTexts(Tail(tokens))

\* C6: a top-level `x IN (v1, ..., vn)` delivered as the three tokens field,
\* IN, parenthesized list yields the filter {x: {_in: [v1, ..., vn]}}.
C6_TopLevelIn ==
    (/\ HasStatement
     /\ Len(WhereBody) = 3
     /\ WhereBody[1].cls = "Identifier"
     /\ WhereBody[2].ttype = "Keyword" /\ Upper(WhereBody[2].value) = "IN"
     /\ WhereBody[3].cls = "Parenthesis") =>
        /\ Returned
        /\ conv.outcome.val.filter =
               Some(Cmp(WhereBody[1].value, "_in",
                        VList(LiteralTexts(flatten(<<WhereBody[3]>>)))))

\* the tokens between the first ORDER BY keyword and the first LIMIT/OFFSET
\* keyword after it (or the end of the stream)
OrderRegion(tokens) ==
    LET IsOrderBy(t) == t.ttype = "Keyword" /\ Upper(t.value) = "ORDER BY"
        IsStop(t) == t.ttype = "Keyword" /\ Upper(t.value) \in {"LIMIT", "OFFSET"}
        o == FirstIndex([i \in 1..Len(tokens) |-> IsOrderBy(tokens[i])])
        rest == SubSeq(tokens, o + 1, Len(tokens))
        e == FirstIndex([i \in 1..Len(rest) |-> IsStop(rest[i])])
    IN  IF o = 0 THEN <<>>
        ELSE IF e = 0 THEN rest ELSE SubSeq(rest, 1, e - 1)

IsSortField(t) ==
    /\ t.ttype # "Whitespace"
    /\ t.value # ","
    /\ Upper(t.value) \notin {"ASC", "DESC", "ORDER BY"}

\* the sort list the ORDER BY rule describes: the field tokens of the region
\* in order, each prefixed with "-" when a DESC comes after it and before the
\* next field
ExpectedSort(tokens) ==
    LET region == OrderRegion(tokens)
        idx == {i \in 1..Len(region) : IsSortField(region[i])}
        Nth(k) == CHOOSE i \in idx : Cardinality({j \in idx : j < i}) = k - 1
        Desc(i) == \E d \in (i + 1)..Len(region) :
                       /\ Upper(region[d].value) = "DESC"
                       /\ \A j \in idx : ~(i < j /\ j < d)
    IN  [k \in 1..Cardinality(idx) |->
            IF Desc(Nth(k)) THEN "-" \o region[Nth(k)].value
            ELSE region[Nth(k)].value]

SortList(q) == IF q.sort = Absent THEN <<>> ELSE q.sort[1]

\* C7: the sort list of the descriptor is the list the ORDER BY rule describes,
\* so `ORDER BY name, created DESC` gives what sort("name", "-created") gives.
C7_OrderBy ==
    (HasStatement /\ OrderRegion(FlatTokens) # <<>>) =>
        /\ Returned
        /\ SortList(conv.outcome.val) = ExpectedSort(FlatTokens)
        /\ ExpectedSort(FlatTokens) = <<"name", "-created">> =>
               conv.outcome.val.sort = sort(EmptyQuery, <<"name", "-created">>).sort

\* the integer after the first occurrence of the keyword, when the first
\* non-whitespace token after it is all digits; Absent otherwise
ExpectedNumber(tokens, keyword) ==
    LET IsKw(t) == t.ttype = "Keyword" /\ Upper(t.value) = keyword
        k == FirstIndex([i \in 1..Len(tokens) |-> IsKw(tokens[i])])
        rest == SubSeq(tokens, k + 1, Len(tokens))
        v == FirstIndex([i \in 1..Len(rest) |-> rest[i].ttype # "Whitespace"])
    IN  IF k = 0 \/ v = 0 THEN Absent
        ELSE IF IsDigit(rest[v].value) THEN Some(ToInt(rest[v].value))
        ELSE Absent

\* C8: limit and offset are present exactly when the token after their keyword
\* is all digits, with that integer as value, and no error is raised.
C8_LimitOffset ==
    (HasStatement /\ \E i \in 1..Len(FlatTokens) :
                        /\ FlatTokens[i].ttype = "Keyword"
                        /\ Upper(FlatTokens[i].value) \in {"LIMIT", "OFFSET"}) =>
        /\ Returned
        /\ conv.outcome.val.limit = ExpectedNumber(FlatTokens, "LIMIT")
        /\ conv.outcome.val.offset = ExpectedNumber(FlatTokens, "OFFSET")

\* the statement has no WHERE clause among its top-level tokens
NoWhere ==
    /\ HasStatement
    /\ \A i \in 1..Len(conv.sql.stmt[1]) : conv.sql.stmt[1][i].cls # "Where"

\* C14: for a statement without a WHERE clause convert returns a descriptor
\* that has no filter key, and whose sort, limit and offset are those of the
\* ORDER BY, LIMIT and OFFSET rules.
C14_NoWhereNoFilter ==
    NoWhere =>
        /\ Returned
        /\ conv.outcome.val.filter = Absent
        /\ SortList(conv.outcome.val) = ExpectedSort(FlatTokens)
        /\ conv.outcome.val.limit = ExpectedNumber(FlatTokens, "LIMIT")
        /\ conv.outcome.val.offset = ExpectedNumber(FlatTokens, "OFFSET")

-----------------------------------------------------------------------------
(* Properties of the converter's helper methods, stated over the last direct
   call *)

\* the fixed table of SQL spellings and the operators they stand for
OperatorTable ==
    { <<"=", "_eq">>, <<"!=", "_neq">>, <<"<", "_lt">>, <<"<=", "_lte">>,
      <<">", "_gt">>, <<">=", "_gte">>, <<"IN", "_in">>, <<"NOT IN", "_nin">>,
      <<"IS NULL", "_null">>, <<"IS NOT NULL", "_nnull">>,
      <<"LIKE", "_contains">> }

\* one-character strings that are the same letter in either case, or equal
SameLetter(c, d) ==
    \/ c = d
    \/ \E i \in 1..Len(LowerLetters) :
           {c, d} = {CharAt(LowerLetters, i), CharAt(UpperLetters, i)}

EqualsIgnoringCase(s, t) ==
    /\ Len(s) = Len(t)
    /\ \A i \in 1..Len(s) : SameLetter(CharAt(s, i), CharAt(t, i))

\* C12: the operator mapping never fails; a spelling that matches a table
\* entry ignoring letter case yields that entry's operator, and every other
\* spelling is returned unchanged.
C12_OperatorMappingTotal ==
    direct.method = "_get_operator_mapping" =>
        /\ direct.outcome.exc = ""
        /\ \A e \in OperatorTable :
              EqualsIgnoringCase(direct.arg, e[1]) => direct.outcome.val = e[2]
        /\ (\A e \in OperatorTable : ~EqualsIgnoringCase(direct.arg, e[1]))
              => direct.outcome.val = direct.arg

C12_Witness ==
    /\ direct.method = "_get_operator_mapping"
    /\ direct.arg = "Not In"
    /\ direct.outcome = Ok("_nin")

\* a token that is a literal: a quoted string or a number
IsLiteral(t) == t.ttype \in {"String.Single", "Number.Integer", "Number.Float"}

\* the value the right-hand side stands for: the literal's text without its
\* quotes, or the list of the literals of a parenthesized list
ExpectedValue(rhs) ==
    IF rhs.cls = "Parenthesis"
    THEN VList(LiteralTexts(flatten(rhs.tokens)))
    ELSE VStr(Strip(rhs.value, {"'", "\""}))

\* C19: a comparison of a field, an operator and a literal or parenthesized
\* list yields {field: {op: value}} with the raw field text, the mapped
\* operator and the literal without its quotes (string or number) or the list
\* of the list's elements; the value is never left unset.
C19_ComparisonParsing ==
    (/\ direct.method = "_parse_comparison"
     /\ Len(NonWhitespace(direct.arg.tokens)) = 3
     /\ \/ IsLiteral(NonWhitespace(direct.arg.tokens)[3])
        \/ NonWhitespace(direct.arg.tokens)[3].cls = "Parenthesis") =>
        /\ direct.outcome.exc = ""
        /\ direct.outcome.val.value # VNone
        /\ direct.outcome.val =
               Cmp(NonWhitespace(direct.arg.tokens)[1].value,
                   _get_operator_mapping(NonWhitespace(direct.arg.tokens)[2].value),
                   ExpectedValue(NonWhitespace(direct.arg.tokens)[3]))

-----------------------------------------------------------------------------
(* What the parsing rules give for the tokens of one nesting level, used to
   state the properties of _parse_group and _parse_where_conditions *)

IsConnective(t) == t.ttype = "Keyword" /\ Upper(t.value) \in {"AND", "OR"}

\* the non-whitespace tokens between the parentheses of group token g
Interior(g) == NonWhitespace(SubSeq(g.tokens, 2, Len(g.tokens) - 1))

\* a parenthesis with nothing but whitespace inside
IsBlankParen(t) == t.cls = "Parenthesis" /\ Interior(t) = <<>>

\* the connective of a level: its last AND/OR keyword, AND when it has none
LastConnective(tokens) ==
    LET idx == {i \in 1..Len(tokens) : IsConnective(tokens[i])}
    IN  IF idx = {} THEN "_and"
        ELSE IF Upper(tokens[CHOOSE i \in idx : \A j \in idx : j <= i].value) = "OR"
        THEN "_or"
        ELSE "_and"

\* zero conditions: empty; one: itself; more: one group
ReduceTo(conditions, connective) ==
    IF conditions = <<>> THEN EmptyDict
    ELSE IF Len(conditions) = 1 THEN conditions[1]
    ELSE Grp(connective, conditions)

\* Collected: the conditions of a level in source order. Keywords give none;
\* a token followed by IN and a third token gives one _in comparison and the
\* three are passed over; a comparison gives itself parsed; a parenthesis
\* gives its reduction unless that is empty.
\* Reduced: the reduction of what is collected inside group token g.
RECURSIVE Collected(_), Reduced(_)
Collected(tokens) ==
    IF tokens = <<>> THEN <<>>
    ELSE IF tokens[1].ttype = "Keyword" THEN Collected(Tail(tokens))
    ELSE IF Len(tokens) >= 3 /\ Upper(tokens[2].value) = "IN"
    THEN <<Cmp(tokens[1].value, "_in", ExpectedValue(tokens[3]))>>
             \o Collected(SubSeq(tokens, 4, Len(tokens)))
    ELSE IF tokens[1].cls = "Comparison"
    THEN <<_parse_comparison(tokens[1])>> \o Collected(Tail(tokens))
    ELSE IF tokens[1].cls = "Parenthesis" /\ Reduced(tokens[1]) # EmptyDict
    THEN <<Reduced(tokens[1])>> \o Collected(Tail(tokens))
    ELSE Collected(Tail(tokens))

Reduced(g) == ReduceTo(Collected(Interior(g)), LastConnective(Interior(g)))

\* the tokens of a level without its blank parentheses
RECURSIVE WithoutBlankParens(_)
WithoutBlankParens(tokens) ==
    IF tokens = <<>> THEN <<>>
    ELSE (IF IsBlankParen(tokens[1]) THEN <<>> ELSE <<tokens[1]>>)
             \o WithoutBlankParens(Tail(tokens))

HasBlankParen(tokens) == \E i \in 1..Len(tokens) : IsBlankParen(tokens[i])

\* the conditions of the top level of a WHERE clause in source order: a
\* comparison gives itself parsed, a parenthesis its reduction unless empty
RECURSIVE TopCollected(_)
TopCollected(tokens) ==
    IF tokens = <<>> THEN <<>>
    ELSE IF tokens[1].cls = "Comparison"
    THEN <<_parse_comparison(tokens[1])>> \o TopCollected(Tail(tokens))
    ELSE IF tokens[1].cls = "Parenthesis" /\ Reduced(tokens[1]) # EmptyDict
    THEN <<Reduced(tokens[1])>> \o TopCollected(Tail(tokens))
    ELSE TopCollected(Tail(tokens))

\* an OR keyword among the tokens of the level itself
HasOr(tokens) ==
    \E i \in 1..Len(tokens) :
        tokens[i].ttype = "Keyword" /\ Upper(tokens[i].value) = "OR"

\* the list _parse_where_conditions is to return for the top-level tokens
TopResult(tokens) ==
    IF HasOr(tokens) THEN <<Grp("_or", TopCollected(tokens))>>
    ELSE TopCollected(tokens)

\* the tokens of the level a direct call was given
DirectLevel ==
    IF direct.method = "_parse_group" THEN Interior(direct.arg)
    ELSE IF direct.method = "_parse_where_conditions"
    THEN NonWhitespace(direct.arg.tokens)
    ELSE IF direct.method = "_parse_non_standard_token" /\ direct.arg.cls = "str"
    THEN NonWhitespace(direct.arg.tokens)
    ELSE <<>>

\* C16: a blank parenthesis group adds no member to the level it stands in and
\* raises nothing: _parse_group of a blank group is empty, and a level with
\* blank groups in it, inside a group or at the top of the WHERE clause, gives
\* what the level gives without them.
C16_BlankGroupIgnored ==
    /\ (direct.method = "_parse_group" /\ IsBlankParen(direct.arg)) =>
           direct.outcome = Ok(EmptyDict)
    /\ (direct.method = "_parse_group" /\ HasBlankParen(DirectLevel)) =>
           direct.outcome =
               Ok(ReduceTo(Collected(WithoutBlankParens(DirectLevel)),
                           LastConnective(DirectLevel)))
    /\ (direct.method = "_parse_where_conditions" /\ HasBlankParen(DirectLevel)) =>
           direct.outcome = Ok(TopResult(WithoutBlankParens(DirectLevel)))

\* C17: _parse_group returns the reduction of its level: empty for no
\* condition, the condition itself for one, else one group of all conditions
\* in source order under the last AND/OR keyword of that level (AND for none);
\* keywords inside nested parentheses do not count for the outer level.
C17_GroupReduction ==
    direct.method = "_parse_group" => direct.outcome = Ok(Reduced(direct.arg))

\* C18: _parse_where_conditions returns the top-level conditions as a flat
\* list when no OR keyword stands at the top level, and as one _or group
\* holding them all when one does (an OR inside parentheses does not count);
\* convert makes that list the members of the outer _and.
C18_TopLevelConnective ==
    direct.method = "_parse_where_conditions" =>
        /\ direct.outcome = Ok(TopResult(DirectLevel))
        /\ HasOr(DirectLevel) =>
               /\ Len(direct.outcome.val) = 1
               /\ direct.outcome.val[1].kind = "grp"
               /\ direct.outcome.val[1].logic = "_or"
        /\ IfWhere(EmptyQuery, TRUE, direct.outcome.val).filter =
               Some(Grp("_and", direct.outcome.val))

\* an IN keyword among the tokens of the level itself
HasIn(tokens) ==
    \E i \in 1..Len(tokens) :
        tokens[i].ttype = "Keyword" /\ Upper(tokens[i].value) = "IN"

\* the conditions of a re-parsed fragment in source order: a token followed by
\* IN and a third token gives one _in comparison and the three are passed
\* over; a comparison gives itself parsed
RECURSIVE FallbackCollected(_)
FallbackCollected(tokens) ==
    IF tokens = <<>> THEN <<>>
    ELSE IF Len(tokens) >= 3 /\ Upper(tokens[2].value) = "IN"
    THEN <<Cmp(tokens[1].value, "_in", ExpectedValue(tokens[3]))>>
             \o FallbackCollected(SubSeq(tokens, 4, Len(tokens)))
    ELSE IF tokens[1].cls = "Comparison"
    THEN <<_parse_comparison(tokens[1])>> \o FallbackCollected(Tail(tokens))
    ELSE FallbackCollected(Tail(tokens))

\* C20: on a level that holds an IN keyword, each token followed by IN and a
\* third token yields exactly one _in comparison and the scan goes on after
\* the third token; an IN with no token after it yields no comparison and no
\* error. This holds in _parse_group and in _parse_non_standard_token.
C20_InLookAhead ==
    /\ (direct.method = "_parse_group" /\ HasIn(DirectLevel)) =>
           direct.outcome = Ok(Reduced(direct.arg))
    /\ (direct.method = "_parse_non_standard_token" /\ HasIn(DirectLevel)) =>
           direct.outcome = Ok(FallbackCollected(DirectLevel))

\* a token of a level whose re-parse in the fallback fails: it is not
\* whitespace, and its text is blank, so that parse(...)[0] raises
FailingFragment(t) == ~is_whitespace(t) /\ Strip(t.value, WhiteChars) = ""

\* the tokens of a level without those whose re-parse fails
RECURSIVE WithoutFailing(_)
WithoutFailing(tokens) ==
    IF tokens = <<>> THEN <<>>
    ELSE (IF FailingFragment(tokens[1]) THEN <<>> ELSE <<tokens[1]>>)
             \o WithoutFailing(Tail(tokens))

-----------------------------------------------------------------------------
(* Properties of convert() calls made from several threads *)

\* what convert gives for the text raw when it is the only call made
Alone(raw) ==
    convert(CHOOSE sql \in CallInputs : sql.raw = raw)

-----------------------------------------------------------------------------
(* Properties of the WHERE parser run step by step *)

\* how deep parentheses nest in token t
RECURSIVE Depth(_)
Depth(t) ==
    LET ds == {Depth(t.tokens[i]) : i \in 1..Len(t.tokens)}
        m == IF ds = {} THEN 0 ELSE CHOOSE d \in ds : \A e \in ds : e <= d
    IN  IF t.cls = "Parenthesis" THEN m + 1 ELSE m

\* what a step of a running call does to the cursors: an iteration moves the
\* cursor of the innermost frame on by one or by three; a call adds a frame
\* that starts at the first token and leaves its callers as they are; a
\* return takes the innermost frame away and moves its caller on by one
CursorRule ==
    (parse.status = "running" /\ parse'.status = "running") =>
        \/ /\ Len(stack') = Len(stack)
           /\ Callers(stack') = Callers(stack)
           /\ Top(stack').i - Top(stack).i \in {1, 3}
        \/ /\ Len(stack') = Len(stack) + 1
           /\ Callers(stack') = stack
           /\ Top(stack').i = 1
        \/ /\ Len(stack') = Len(stack) - 1
           /\ Top(stack').i = stack[Len(stack) - 1].i + 1

\* no cursor is beyond the position after the last token; a group called from
\* a group works on a shorter text; there are no more group frames than
\* parentheses nest in the argument
NestingRule ==
    parse.status = "running" =>
        /\ \A k \in 1..Len(stack) : stack[k].i <= Len(stack[k].tokens) + 1
        /\ \A k \in 2..Len(stack) :
              stack[k].kind = "group" => stack[k].size < stack[k - 1].size
        /\ Cardinality({k \in 1..Len(stack) : stack[k].kind = "group"})
               <= Depth(parse.arg)

\* C22: the WHERE parse terminates: every iteration moves the cursor of its
\* level on by one or three, every nested group call works on a shorter text
\* and the frames are bounded by the nesting of the input, so every call that
\* is under way reaches its reduction step and returns.
C22_ParseTerminates ==
    /\ [][CursorRule]_vars
    /\ []NestingRule
    /\ (parse.status = "running") ~> (parse.status = "returned")
====
